---- MODULE Spec2Model ----
(***************************************************************************)
(* Model of the Analytics Copilot core: the Schema Linker                  *)
(* (src/agents/schema_linker.py), the SQL Generator                        *)
(* (src/agents/sql_generator.py) and the Validator/Executor retry loop     *)
(* (src/agents/validator.py).                                              *)
(*                                                                         *)
(* Text is a sequence of tokens (TLA+ strings cannot be taken apart), so   *)
(* the string functions of the source are operators on token sequences.    *)
(* The warehouse, the search service and the completion service are        *)
(* external: every call to them is a nondeterministic choice of outcome.   *)
(***************************************************************************)
EXTENDS Integers, Sequences, FiniteSets, TLC

\* ------------------------------------------------------------------ bounds
\* largest max_retries argument a caller passes in the model
MaxRetriesBound == 3

\* ------------------------------------------------------------ text helpers
\* Python None for last_error / an absent return value
None == <<"<None>">>

\* characters str.strip() and \s treat as whitespace
IsSpace(t) == t \in {" ", "\t", "\n"}

RECURSIVE LStrip(_)
LStrip(s) == IF s # <<>> /\ IsSpace(Head(s)) THEN LStrip(Tail(s)) ELSE s

RECURSIVE RStrip(_)
RStrip(s) ==
    IF s # <<>> /\ IsSpace(s[Len(s)]) THEN RStrip(SubSeq(s, 1, Len(s) - 1)) ELSE s

\* str.strip()
Strip(s) == RStrip(LStrip(s))

\* `not s or not s.strip()`: nothing but whitespace
IsBlank(s) == \A i \in 1..Len(s) : IsSpace(s[i])

\* str.startswith(prefix)
StartsWith(s, p) == Len(s) >= Len(p) /\ SubSeq(s, 1, Len(p)) = p

\* index of the first "\n" of s at or after position i, Len(s)+1 when none
RECURSIVE NextNewline(_, _)
NextNewline(s, i) ==
    IF i > Len(s) THEN Len(s) + 1
    ELSE IF s[i] = "\n" THEN i ELSE NextNewline(s, i + 1)

\* str.split('\n'): the lines of s ("".split gives one empty line)
RECURSIVE SplitLines(_)
SplitLines(s) ==
    LET n == NextNewline(s, 1) IN
    IF n > Len(s) THEN <<s>>
    ELSE <<SubSeq(s, 1, n - 1)>> \o SplitLines(SubSeq(s, n + 1, Len(s)))

\* least and greatest element of a non-empty set of numbers
MinOf(S) == CHOOSE i \in S : \A j \in S : i <= j
MaxOf(S) == CHOOSE i \in S : \A j \in S : j <= i

\* ------------------------------------------------- _extract_error_message
\* tokens whose lower-cased text contains "error"
ErrorWords == {"Error:", "SnowflakeError:", "error", "SQL compilation error:",
               "Execution error:"}

\* mutant: the test is case-sensitive
HasErrorWord_CaseSensitive(line) ==
    \E i \in 1..Len(line) : line[i] \in ErrorWords \ {"Error:", "SnowflakeError:"}

\* 'error' in line.lower()
HasErrorWord(line) == \E i \in 1..Len(line) : line[i] \in ErrorWords

prefixes_to_remove == << <<"Error:", " ">>, <<"SnowflakeError:", " ">>, <<"Exception:", " ">> >>

\* the loop `for prefix in prefixes_to_remove`, from prefix number i on
RECURSIVE RemovePrefixes(_, _)
RemovePrefixes(cleaned, i) ==
    IF i > Len(prefixes_to_remove) THEN cleaned
    ELSE LET p == prefixes_to_remove[i] IN
         RemovePrefixes(IF StartsWith(cleaned, p)
                        THEN SubSeq(cleaned, Len(p) + 1, Len(cleaned))
                        ELSE cleaned, i + 1)

\* error_text[:200]: the model's texts are shorter than the cut
ErrorPrefixLen == 200
TakePrefix(s, n) == SubSeq(s, 1, IF Len(s) < n THEN Len(s) ELSE n)

_extract_error_message(error_text) ==
    IF error_text = <<>> THEN <<"Unknown error (empty error message)">>
    ELSE LET lines == SplitLines(error_text)
             errIdx == {i \in 1..Len(lines) : HasErrorWord(lines[i])}
             nbIdx  == {i \in 1..Len(lines) : ~IsBlank(lines[i])}
         IN IF errIdx # {} THEN RemovePrefixes(Strip(lines[MinOf(errIdx)]), 1)
            ELSE IF nbIdx # {} THEN Strip(lines[MinOf(nbIdx)])
            ELSE Strip(TakePrefix(error_text, ErrorPrefixLen))
\* ------------------------------------------------ _clean_sql, _extract_sql
\* the markdown fence marker (three backquotes), one token
Fence == "<fence>"
SqlTags == {"sql", "SQL"}

\* re.sub(fence (?:sql)?, "", sql, flags=re.IGNORECASE)
RECURSIVE RemoveFences(_)
RemoveFences(s) ==
    IF s = <<>> THEN <<>>
    ELSE IF Head(s) = Fence
         THEN IF Len(s) >= 2 /\ s[2] \in SqlTags
              THEN RemoveFences(SubSeq(s, 3, Len(s)))
              ELSE RemoveFences(Tail(s))
         ELSE <<Head(s)>> \o RemoveFences(Tail(s))

\* str.rstrip(';')
RECURSIVE RStripSemicolons(_)
RStripSemicolons(s) ==
    IF s # <<>> /\ s[Len(s)] = ";" THEN RStripSemicolons(SubSeq(s, 1, Len(s) - 1)) ELSE s

\* re.sub(r'[ \t]+', ' ', sql)
IsBlankChar(t) == t \in {" ", "\t"}
RECURSIVE CollapseSpaces(_)
CollapseSpaces(s) ==
    IF s = <<>> THEN <<>>
    ELSE IF IsBlankChar(Head(s))
         THEN IF Len(s) >= 2 /\ IsBlankChar(s[2])
              THEN CollapseSpaces(Tail(s))
              ELSE <<" ">> \o CollapseSpaces(Tail(s))
         ELSE <<Head(s)>> \o CollapseSpaces(Tail(s))

\* end of the maximal run of whitespace that starts at position i
RECURSIVE SpaceRunEnd(_, _)
SpaceRunEnd(s, i) ==
    IF i + 1 <= Len(s) /\ IsSpace(s[i + 1]) THEN SpaceRunEnd(s, i + 1) ELSE i

\* re.sub(r'\n\s*\n', '\n', sql): a newline, greedy whitespace, a newline
RECURSIVE CollapseBlankLines(_)
CollapseBlankLines(s) ==
    IF s = <<>> THEN <<>>
    ELSE IF Head(s) = "\n"
         THEN LET e   == SpaceRunEnd(s, 1)
                  nls == {j \in 2..e : s[j] = "\n"}
              IN IF nls = {} THEN <<"\n">> \o CollapseBlankLines(Tail(s))
                 ELSE LET j == CHOOSE k \in nls : \A m \in nls : m <= k
                      IN <<"\n">> \o CollapseBlankLines(SubSeq(s, j + 1, Len(s)))
         ELSE <<Head(s)>> \o CollapseBlankLines(Tail(s))

\* mutant: trailing semicolons are kept
_clean_sql_KeepsSemicolons(sql) ==
    IF sql = <<>> THEN <<>>
    ELSE Strip(CollapseBlankLines(CollapseSpaces(Strip(RemoveFences(sql)))))

_clean_sql(sql) ==
    IF sql = <<>> THEN <<>>
    ELSE Strip(CollapseBlankLines(CollapseSpaces(Strip(RStripSemicolons(RemoveFences(sql))))))

\* r'\b(SELECT|WITH|INSERT|UPDATE|DELETE)\b' with re.IGNORECASE
SqlStartWords == {"SELECT", "select", "WITH", "with", "INSERT", "UPDATE", "DELETE"}

\* tokens whose first character is in [A-Z]
CapitalWords == {"SELECT", "WITH", "INSERT", "UPDATE", "DELETE", "FROM", "Note:",
                 "Explanation:", "This query counts rows.", "Here is the query:",
                 "ERROR: Insufficient schema information", "SQL"}

\* positions of the tokens of s that are in set W
Positions(s, W) == {i \in 1..Len(s) : s[i] \in W}

\* re.split(r'\n\n[A-Z]', sql)[0]
CutAtProse(s) ==
    LET cuts == {i \in 1..Len(s) : /\ i + 2 <= Len(s)
                                   /\ s[i] = "\n" /\ s[i + 1] = "\n"
                                   /\ s[i + 2] \in CapitalWords}
    IN IF cuts = {} THEN s ELSE SubSeq(s, 1, MinOf(cuts) - 1)

\* sql.split('\n\n' + marker)[0]
CutAtMarker(s, marker) ==
    LET cuts == {i \in 1..Len(s) : /\ i + 2 <= Len(s)
                                   /\ s[i] = "\n" /\ s[i + 1] = "\n"
                                   /\ s[i + 2] = marker}
    IN IF cuts = {} THEN s ELSE SubSeq(s, 1, MinOf(cuts) - 1)

_extract_sql(response_text) ==
    IF response_text = <<>> THEN <<>>
    ELSE LET text   == Strip(response_text)
             fences == Positions(text, {Fence})
         IN IF Cardinality(fences) >= 2
            THEN \* fence (?:sql)? \s* (.*?) \s* fence: first fence to the next one
                 LET i     == MinOf(fences)
                     j     == MinOf(fences \ {i})
                     inner == SubSeq(text, i + 1, j - 1)
                     body  == IF inner # <<>> /\ Head(inner) \in SqlTags
                              THEN Tail(inner) ELSE inner
                 IN _clean_sql(Strip(body))
            ELSE LET starts == Positions(text, SqlStartWords)
                 IN IF starts # {}
                    THEN LET sql == Strip(SubSeq(text, MinOf(starts), Len(text)))
                         IN _clean_sql(CutAtMarker(CutAtMarker(CutAtProse(sql),
                                                    "Note:"), "Explanation:"))
                    ELSE _clean_sql(text)
\* ------------------------------------------------------------- input sets
\* tables a schema context can hold (columns abbreviated to their names)
OrdersTable == [table_name |-> "ORDERS", columns |-> <<"ORDER_ID", "CUSTOMER_ID">>,
                relevance_score |-> 50]

SchemaContexts == {<<>>, <<OrdersTable>>}

Questions == {<<>>, <<" ">>, <<"How many orders were placed in 2017?">>}

\* candidate SQL handed to the validator: empty, blank, and a statement
SqlInputs == {<<>>, <<" ">>, <<"SELECT", " ", "1">>}

\* raw diagnostics the warehouse raises
RawErrors ==
    { <<"Error:", " ", "SQL compilation error:", " ", "invalid identifier X">>,
      <<" ", "syntax problem at EOF", "\n", "error", " ", "line 1">> }

\* what the explain / run call of the gateway can do
GatewayOutcomes == {[ok |-> TRUE, raw |-> <<>>]} \cup {[ok |-> FALSE, raw |-> e] : e \in RawErrors}

\* _extract_error_message on each diagnostic, evaluated once
CleanedError == [e \in RawErrors \cup {<<>>} |-> _extract_error_message(e)]

\* replies of the completion service
CompletionTexts ==
    { <<Fence, "sql", "\n", "SELECT", " ", "2", ";", "\n", Fence>>,
      <<"SELECT", " ", "1">>,
      <<" ">> }

\* the reply the prompt asks for when the schema does not cover the question
\* (rule 3 of _build_prompt)
RefusalText == <<"ERROR: Insufficient schema information">>

\* a query over a table, by qualified name
CountRows(t) ==
    <<"SELECT", " ", "COUNT(*)", " ", "FROM", " ", "ANALYTICS_COPILOT.RAW.", t>>

\* replies given to a direct call of generate_sql: the replies above, the
\* refusal, and queries over a table of the context and over another table
GeneratorTexts ==
    CompletionTexts \cup {RefusalText, CountRows("ORDERS"), CountRows("CUSTOMERS")}

\* _extract_sql on each reply, evaluated once
ExtractedSql == [t \in GeneratorTexts \cup {<<>>} |-> _extract_sql(t)]

\* the completion call raises, returns no row, or returns a text
CompletionOutcomes ==
    {[kind |-> "raise", text |-> <<>>], [kind |-> "norows", text |-> <<>>]}
    \cup {[kind |-> "text", text |-> t] : t \in CompletionTexts}

GeneratorOutcomes ==
    CompletionOutcomes \cup {[kind |-> "text", text |-> t] : t \in GeneratorTexts}

\* ------------------------------------------------------------ generate_sql
\* _build_prompt: the parts of the prompt that depend on the arguments
QualifiedName(t) == <<"ANALYTICS_COPILOT.RAW.", t>>

\* mutant: the first table of the context is left out of the prompt
_build_prompt_DropsTable(q, ctx) ==
    [available_tables |-> [i \in 1..Len(ctx) - 1 |-> QualifiedName(ctx[i + 1].table_name)],
     schema_context   |-> Tail(ctx),
     question         |-> q]

_build_prompt(q, ctx) ==
    [available_tables |-> [i \in 1..Len(ctx) |-> QualifiedName(ctx[i].table_name)],
     schema_context   |-> ctx,
     question         |-> q]

\* mutant: the schema_context check is missing
GenerateRejectsInput_NoContextCheck(q, ctx) == IsBlank(q)

\* generate_sql returns before the completion call on an empty argument
GenerateRejectsInput(q, ctx) == IsBlank(q) \/ ctx = <<>>

\* the value generate_sql returns when the completion call behaves as c
generate_sql(q, ctx, c) ==
    IF GenerateRejectsInput(q, ctx) THEN <<>>
    ELSE IF c.kind = "raise" THEN <<>>
    ELSE IF c.kind = "norows" THEN <<>>
    ELSE IF IsBlank(c.text) THEN <<>>
    ELSE IF IsBlank(ExtractedSql[c.text]) THEN <<>> ELSE ExtractedSql[c.text]

\* the calls one generate_sql invocation adds to the log
GenerateEvents(q, ctx, c) ==
    <<[op |-> "generate", question |-> q, schema_context |-> ctx,
       result |-> generate_sql(q, ctx, c)]>>
    \o (IF GenerateRejectsInput(q, ctx) THEN <<>>
        ELSE <<[op |-> "complete", prompt |-> _build_prompt(q, ctx)]>>)

\* ------------------------------------------------------------ link_schema
\* the default the limit is coerced to
DefaultLimit == 5

\* `if limit < 1: limit = 5`
CoerceLimit(n) == IF n < 1 THEN DefaultLimit ELSE n

\* relevance scores, in hundredths
KeywordScore == 50
MetadataPartnerScore == 40
CatalogPartnerScore == 30
AllTablesScore == 10

ExcludedTable == "SUPERSTORE_SALES"

\* the table names of a row list, in order of first appearance (dict order)
RECURSIVE TableNames(_)
TableNames(rows) ==
    IF rows = <<>> THEN <<>>
    ELSE LET rest == TableNames(SubSeq(rows, 1, Len(rows) - 1))
             t    == rows[Len(rows)].table_name
         IN IF \E i \in 1..Len(rest) : rest[i] = t THEN rest ELSE Append(rest, t)

\* the rows of table t, in order
RowsOf(rows, t) == SelectSeq(rows, LAMBDA r : r.table_name = t)

ColumnNames(rows) == [i \in 1..Len(rows) |-> rows[i].column_name]

RECURSIVE SumScores(_)
SumScores(rows) == IF rows = <<>> THEN 0 ELSE Head(rows).score + SumScores(Tail(rows))

\* sum(scores) / len(scores), in hundredths
AverageScore(rows) == SumScores(rows) \div Len(rows)

\* list.sort(key, reverse=True): stable, descending by key
RECURSIVE InsertDesc(_, _, _)
InsertDesc(sorted, x, key) ==
    IF sorted = <<>> THEN <<x>>
    ELSE IF x[key] > Head(sorted)[key] THEN <<x>> \o sorted
         ELSE <<Head(sorted)>> \o InsertDesc(Tail(sorted), x, key)

RECURSIVE SortDesc(_, _)
SortDesc(seq, key) ==
    IF seq = <<>> THEN <<>>
    ELSE InsertDesc(SortDesc(SubSeq(seq, 1, Len(seq) - 1), key), seq[Len(seq)], key)

\* tables_list[:limit]
Truncate(seq, n) == SubSeq(seq, 1, IF Len(seq) < n THEN Len(seq) ELSE n)

_filter_dataset_mixing(tbls) == SelectSeq(tbls, LAMBDA t : t.table_name # ExcludedTable)

\* grouping of rows into tables that all get the score sc
GroupFixedScore(rows, sc) ==
    LET names == TableNames(rows)
    IN [i \in 1..Len(names) |->
          [table_name |-> names[i], columns |-> ColumnNames(RowsOf(rows, names[i])),
           relevance_score |-> sc]]

\* the semantic tier after a non-empty result list: group, average, sort,
\* filter, truncate
SemanticTables_Unsorted(results, lim) ==
    LET names  == TableNames(results)
        tlist  == [i \in 1..Len(names) |->
                     [table_name |-> names[i],
                      columns |-> ColumnNames(RowsOf(results, names[i])),
                      relevance_score |-> AverageScore(RowsOf(results, names[i]))]]
    IN Truncate(_filter_dataset_mixing(tlist), lim)

SemanticTables(results, lim) ==
    LET names  == TableNames(results)
        tlist  == [i \in 1..Len(names) |->
                     [table_name |-> names[i],
                      columns |-> ColumnNames(RowsOf(results, names[i])),
                      relevance_score |-> AverageScore(RowsOf(results, names[i]))]]
    IN Truncate(_filter_dataset_mixing(SortDesc(tlist, "relevance_score")), lim)

\* the keyword tier after a non-empty row list: group with the first row's
\* match count, sort by it, drop it, truncate, filter
KeywordTables(rows, lim) ==
    LET names  == TableNames(rows)
        tlist  == [i \in 1..Len(names) |->
                     [table_name |-> names[i],
                      columns |-> ColumnNames(RowsOf(rows, names[i])),
                      relevance_score |-> KeywordScore,
                      match_count |-> RowsOf(rows, names[i])[1].match_count]]
        sorted == SortDesc(tlist, "match_count")
        clean  == [i \in 1..Len(sorted) |->
                     [table_name |-> sorted[i].table_name,
                      columns |-> sorted[i].columns,
                      relevance_score |-> sorted[i].relevance_score]]
    IN _filter_dataset_mixing(Truncate(clean, lim))

\* FK_PARTNERS of _supplement_related_tables
FK_PARTNERS_NoCustomers(t) ==
    IF t \in {"ORDER_ITEMS", "ORDER_REVIEWS", "ORDER_PAYMENTS"} THEN {"ORDERS"} ELSE {}

FK_PARTNERS(t) ==
    CASE t = "ORDER_ITEMS" -> {"ORDERS"}
      [] t = "ORDER_REVIEWS" -> {"ORDERS"}
      [] t = "ORDER_PAYMENTS" -> {"ORDERS"}
      [] t = "ORDERS" -> {"CUSTOMERS"}
      [] OTHER -> {}

\* the set `needed` of _supplement_related_tables
NeededPartners(tbls) ==
    LET current_names == {tbls[i].table_name : i \in 1..Len(tbls)}
    IN UNION {FK_PARTNERS(n) \ current_names : n \in current_names}

\* rows the stores can hold (column descriptors abbreviated to the name)
Row(t, c) == [table_name |-> t, column_name |-> c]
SRow(t, c, sc) == [table_name |-> t, column_name |-> c, score |-> sc]
KRow(t, c, m) == [table_name |-> t, column_name |-> c, match_count |-> m]

\* result lists of the search service
SearchResults ==
    { <<SRow("SUPERSTORE_SALES", "SALES", 95), SRow("ORDERS", "ORDER_ID", 90),
        SRow("CUSTOMERS", "CUSTOMER_ID", 60), SRow("ORDERS", "ORDER_STATUS", 70)>>,
      <<SRow("ORDER_ITEMS", "PRICE", 40), SRow("ORDERS", "ORDER_ID", 80)>>,
      <<SRow("SUPERSTORE_SALES", "SALES", 95)>> }

\* what the search call can do: raise (three kinds of message), return no
\* row, return a document without results, or return results
SearchOutcomes ==
    {[kind |-> k, results |-> <<>>] :
        k \in {"raise_service_missing", "raise_table_descriptions", "raise_other",
               "norows", "noresults"}}
    \cup {[kind |-> "results", results |-> r] : r \in SearchResults}

\* row lists of the keyword query (ORDER BY match_count DESC, table_name)
KeywordRows ==
    { <<KRow("ORDER_ITEMS", "ORDER_ID", 2), KRow("ORDER_ITEMS", "PRICE", 2),
        KRow("SUPERSTORE_SALES", "SALES", 1)>>,
      <<KRow("ORDERS", "ORDER_ID", 1)>>,
      <<KRow("CUSTOMERS", "CUSTOMER_ID", 1), KRow("ORDER_ITEMS", "PRICE", 1),
        KRow("ORDERS", "ORDER_ID", 1)>>,
      <<KRow("CUSTOMERS", "CUSTOMER_CITY", 1)>>,
      <<KRow("SUPERSTORE_SALES", "SALES", 2), KRow("ORDERS", "ORDER_ID", 1)>> }

\* a metadata or catalog query raises or returns rows
QueryOutcomes(rowsets) ==
    {[kind |-> "raise", rows |-> <<>>]} \cup {[kind |-> "rows", rows |-> r] : r \in rowsets}

\* rows of the raw catalog (ORDER BY table_name)
CatalogRows ==
    { <<>>,
      <<Row("CUSTOMERS", "CUSTOMER_ID"), Row("ORDERS", "ORDER_ID"),
        Row("ORDERS", "CUSTOMER_ID"), Row("SUPERSTORE_SALES", "SALES")>> }

\* rows a store returns for `WHERE table_name IN (names)`: one row for each
\* table of a subset of the names, ordered by table name
PartnerRowsFor(S) ==
    IF S = {} THEN <<>>
    ELSE IF S = {"CUSTOMERS"} THEN <<Row("CUSTOMERS", "CUSTOMER_ID")>>
    ELSE IF S = {"ORDERS"} THEN <<Row("ORDERS", "ORDER_ID")>>
    ELSE <<Row("CUSTOMERS", "CUSTOMER_ID"), Row("ORDERS", "ORDER_ID")>>

PartnerRows(names) == {PartnerRowsFor(S) : S \in SUBSET names}

Limits == {0, 1, 2}

\* ------------------------------------------------------------------ state
VARIABLES
    stage,          \* which stage the caller invoked: "none", "validator", "generator", "linker"
    pc,             \* position inside the stage
    args,           \* the arguments of the call
    max_retries,    \* validate_and_execute: the (coerced) local max_retries
    current_sql,    \* validate_and_execute: current_sql
    attempt,        \* validate_and_execute: attempt
    last_error,     \* validate_and_execute: last_error
    error_message,  \* the error handed to _retry_with_error_feedback
    limit,          \* link_schema: the (coerced) local limit
    tables,         \* link_schema: the table list built so far
    needed,         \* _supplement_related_tables: the partner names to fetch
    ret,            \* the value the stage returned
    calls,          \* every call made to a collaborator or to generate_sql, in order
    frames,         \* interleaved invocations: the locals of each validate_and_execute
    received,       \* interleaved invocations: the outcomes each one's calls got
    _session,       \* snowflake_conn: the module-level cached session
    created,        \* snowflake_conn: how many sessions Session.builder created
    closed,         \* snowflake_conn: the sessions whose close() succeeded
    threads         \* snowflake_conn: each caller's position and last result

\* the locals of validate_and_execute and of link_schema
vvars == <<max_retries, current_sql, attempt, last_error, error_message>>
lvars == <<limit, tables, needed>>

\* the state of the interleaved invocations and of the session cache
ovars == <<frames, received, _session, created, closed, threads>>

vars == <<stage, pc, args, vvars, lvars, ret, calls, ovars>>

\* two invocations of validate_and_execute; two callers of snowflake_conn
Invocations == {1, 2}
Threads == {1, 2}

\* a frame before its invocation starts
NoFrame == [pc |-> "idle"]
\* `_session = None`; sessions are numbered from 1 in the order of creation
NoSession == 0
\* a thread outside any call of the connection module
IdleThread == [pc |-> "idle"]

\* the two components at rest
OthersInit ==
    /\ frames = [i \in Invocations |-> NoFrame]
    /\ received = [i \in Invocations |-> <<>>]
    /\ _session = NoSession
    /\ created = 0
    /\ closed = {}
    /\ threads = [t \in Threads |-> IdleThread]

NoArgs == [none |-> TRUE]
NoRet  == [kind |-> "none"]

Init ==
    /\ stage = "none"
    /\ pc = "idle"
    /\ args = NoArgs
    /\ max_retries = 0
    /\ current_sql = <<>>
    /\ attempt = 0
    /\ last_error = None
    /\ error_message = None
    /\ limit = 0
    /\ tables = <<>>
    /\ needed = {}
    /\ ret = NoRet
    /\ calls = <<>>
    /\ OthersInit

\* -------------------------------------------------- validate_and_execute
\* `return current_sql, result_df`: the result is a lazy handle on the SQL
Success(sql_text) ==
    [kind |-> "Success", final_sql |-> sql_text, result |-> <<"DataFrame">> \o sql_text,
     via |-> "success"]

\* `return current_sql, last_error` (an error string in place of the handle)
Failure(sql_text, msg, via) ==
    [kind |-> "Failure", final_sql |-> sql_text, result |-> msg, via |-> via]

EmptySqlMessage == <<"Empty SQL query provided to validator. Cannot validate empty query.">>
UnknownErrorMessage == <<"Unknown error occurred during validation">>

\* mutant: a negative max_retries is kept
CoerceMaxRetries_Kept(n) == n

\* `if max_retries < 0: max_retries = 0`
CoerceMaxRetries(n) == IF n < 0 THEN 0 ELSE n

\* mutant: the failure of the EXPLAIN call is swallowed
_validate_sql_AlwaysValid(o) == [is_valid |-> TRUE, error_message |-> None]

\* _validate_sql: (is_valid, error_message) for an outcome of the EXPLAIN call
_validate_sql(o) ==
    IF o.ok THEN [is_valid |-> TRUE, error_message |-> None]
    ELSE [is_valid |-> FALSE, error_message |-> CleanedError[o.raw]]

\* _execute_sql: (result_df, exec_error) for an outcome of session.sql(sql)
_execute_sql(o) ==
    IF o.ok THEN [ok |-> TRUE, exec_error |-> None]
    ELSE [ok |-> FALSE, exec_error |-> CleanedError[o.raw]]

\* mutant: retries once more than allowed (`attempt <= max_retries`)
ValidateBranch_OffByOne(is_valid, a, m) ==
    IF is_valid THEN "execute"
    ELSE IF a <= m THEN "retry" ELSE "return_failure"

\* mutant: gives up on the first failed validation
ValidateBranch_NoRetry(is_valid, a, m) ==
    IF is_valid THEN "execute" ELSE "return_failure"

\* the branches taken after _validate_sql returned
ValidateBranch(is_valid, a, m) ==
    IF is_valid THEN "execute"
    ELSE IF a < m THEN "retry" ELSE "return_failure"

\* mutant: the retry test comes before the success test
ExecuteBranch_RetryFirst(exec_ok, a, m) ==
    IF a < m THEN "retry"
    ELSE IF exec_ok THEN "return_success" ELSE "return_failure"

\* the branches taken after _execute_sql returned
ExecuteBranch(exec_ok, a, m) ==
    IF exec_ok THEN "return_success"
    ELSE IF a < m THEN "retry" ELSE "return_failure"

\* mutant: the increment is missing
NextAttempt_Missing(a) == a

\* `attempt += 1`
NextAttempt(a) == a + 1

\* the loop condition `while attempt <= max_retries`
LoopContinues(a, m) == a <= m

\* mutant: the feedback is appended to the question of the previous
\* regeneration
EnrichedQuestion_Accumulates(q, err, previous_sql) ==
    (IF \E i \in 1..Len(calls) : calls[i].op = "generate"
     THEN calls[CHOOSE i \in 1..Len(calls) :
                   /\ calls[i].op = "generate"
                   /\ \A j \in (i + 1)..Len(calls) : calls[j].op # "generate"].question
     ELSE q)
      \o <<"\n", "\n", "PREVIOUS ATTEMPT FAILED WITH ERROR:", "\n">> \o err
      \o <<"\n", "\n", "FAILED SQL QUERY:", "\n">> \o previous_sql
      \o <<"\n", "\n", "Please fix the SQL query to avoid this error.", "\n">>

\* the enriched question of _retry_with_error_feedback
EnrichedQuestion(q, err, previous_sql) ==
    q \o <<"\n", "\n", "PREVIOUS ATTEMPT FAILED WITH ERROR:", "\n">> \o err
      \o <<"\n", "\n", "FAILED SQL QUERY:", "\n">> \o previous_sql
      \o <<"\n", "\n", "Please fix the SQL query to avoid this error.", "\n">>

\* mutant: a blank regeneration result is not replaced by the previous SQL
_retry_with_error_feedback_NoGuard(q, ctx, err, previous_sql, c) ==
    generate_sql(EnrichedQuestion(q, err, previous_sql), ctx, c)

\* mutant: a blank regeneration result falls back to nothing
_retry_with_error_feedback_Drops(q, ctx, err, previous_sql, c) ==
    IF IsBlank(generate_sql(EnrichedQuestion(q, err, previous_sql), ctx, c))
    THEN <<>>
    ELSE generate_sql(EnrichedQuestion(q, err, previous_sql), ctx, c)

\* _retry_with_error_feedback: the SQL the loop continues with
_retry_with_error_feedback(q, ctx, err, previous_sql, c) ==
    IF IsBlank(generate_sql(EnrichedQuestion(q, err, previous_sql), ctx, c))
    THEN previous_sql
    ELSE generate_sql(EnrichedQuestion(q, err, previous_sql), ctx, c)

\* the collaborator calls of the three stages
CallSites ==
    {"explain", "run", "complete", "search", "keyword_query",
     "partner_metadata_query", "partner_catalog_query", "catalog_query"}

\* mutant: _execute_sql without its try block
Handles_NotRun(site) == site \in CallSites \ {"run"}

\* mutant: _get_all_tables without its try block
Handles_NotCatalog(site) == site \in CallSites \ {"catalog_query"}

\* the call at `site` sits in a try block whose handler catches Exception
Handles(site) == site \in CallSites

\* an exception nobody catches leaves the stage: the caller gets no value
Raised(site) == [kind |-> "raised", site |-> site]
Escapes(site) == pc' = "done" /\ ret' = Raised(site)

\* validate_and_execute(session, s, q, ctx, n) up to the first loop test
EnterValidator(s, q, ctx, n) ==
    /\ stage' = "validator"
    /\ args' = [sql |-> s, question |-> q, schema_context |-> ctx, max_retries |-> n]
    /\ IF IsBlank(s)
       THEN /\ pc' = "done"
            /\ ret' = Failure(s, EmptySqlMessage, "empty_sql")
            /\ UNCHANGED <<max_retries, current_sql, attempt, last_error>>
       ELSE /\ max_retries' = CoerceMaxRetries(n)
            /\ current_sql' = s
            /\ attempt' = 0
            /\ last_error' = None
            /\ IF LoopContinues(0, max_retries')
               THEN pc' = "validating" /\ ret' = NoRet
               ELSE pc' = "done" /\ ret' = Failure(s, UnknownErrorMessage, "loop_exit")

\* a caller invokes validate_and_execute
ValidatorCall ==
    /\ pc = "idle"
    /\ \E s \in SqlInputs, q \in Questions, ctx \in SchemaContexts,
          n \in -1..MaxRetriesBound :
        EnterValidator(s, q, ctx, n)
    /\ UNCHANGED <<error_message, calls, lvars>>
    /\ UNCHANGED ovars

\* the rest of the iteration for explain outcome o: v is what _validate_sql
\* returned and b the branch taken
AfterValidate(o, v, b) ==
    /\ calls' = Append(calls, [op |-> "explain", sql |-> current_sql, ok |-> o.ok,
                               raw |-> o.raw, attempt |-> attempt])
    /\ last_error' = IF v.is_valid THEN last_error ELSE v.error_message
    /\ error_message' = IF b = "retry" THEN v.error_message ELSE error_message
    /\ pc' = CASE b = "execute" -> "executing"
               [] b = "retry" -> "regenerating"
               [] OTHER -> "done"
    /\ ret' = IF b = "return_failure"
              THEN Failure(current_sql, v.error_message, "validate_failure")
              ELSE ret

\* one loop iteration up to the EXPLAIN call and the branch on is_valid
Validate ==
    /\ stage = "validator" /\ pc = "validating"
    /\ \E o \in GatewayOutcomes :
        IF ~o.ok /\ ~Handles("explain")
        THEN Escapes("explain") /\ UNCHANGED <<calls, last_error, error_message>>
        ELSE AfterValidate(o, _validate_sql(o),
                           ValidateBranch(_validate_sql(o).is_valid, attempt, max_retries))
    /\ UNCHANGED <<stage, args, max_retries, current_sql, attempt, lvars>>
    /\ UNCHANGED ovars

\* `last_error = f"Execution error: {exec_error}"`
ExecutionError(exec_error) == <<"Execution error:", " ">> \o exec_error

\* the rest of the iteration for run outcome o: x is what _execute_sql
\* returned and b the branch taken
AfterExecute(o, x, b) ==
    /\ calls' = Append(calls, [op |-> "run", sql |-> current_sql, ok |-> o.ok,
                               raw |-> o.raw, attempt |-> attempt])
    /\ last_error' = IF x.ok THEN last_error ELSE ExecutionError(x.exec_error)
    /\ error_message' = IF b = "retry" THEN x.exec_error ELSE error_message
    /\ pc' = IF b = "retry" THEN "regenerating" ELSE "done"
    /\ ret' = CASE b = "return_success" -> Success(current_sql)
                [] b = "return_failure" ->
                     Failure(current_sql, ExecutionError(x.exec_error), "execute_failure")
                [] OTHER -> ret

\* the run call of the iteration and the branch on exec_error
Execute ==
    /\ stage = "validator" /\ pc = "executing"
    /\ \E o \in GatewayOutcomes :
        IF ~o.ok /\ ~Handles("run")
        THEN Escapes("run") /\ UNCHANGED <<calls, last_error, error_message>>
        ELSE AfterExecute(o, _execute_sql(o),
                          ExecuteBranch(_execute_sql(o).ok, attempt, max_retries))
    /\ UNCHANGED <<stage, args, max_retries, current_sql, attempt, lvars>>
    /\ UNCHANGED ovars

\* current_sql = _retry_with_error_feedback(...); attempt += 1; the loop test;
\* when the test fails, the return after the loop
Regenerate ==
    /\ stage = "validator" /\ pc = "regenerating"
    /\ \E c \in CompletionOutcomes :
        IF c.kind = "raise" /\ args.schema_context # <<>> /\ ~Handles("complete")
        THEN Escapes("complete") /\ UNCHANGED <<current_sql, calls, attempt>>
        ELSE /\ current_sql' = _retry_with_error_feedback(
                                   args.question, args.schema_context,
                                   error_message, current_sql, c)
             /\ calls' = calls \o GenerateEvents(
                             EnrichedQuestion(args.question, error_message, current_sql),
                             args.schema_context, c)
             /\ attempt' = NextAttempt(attempt)
             /\ IF LoopContinues(attempt', max_retries)
                THEN pc' = "validating" /\ ret' = ret
                ELSE /\ pc' = "done"
                     /\ ret' = Failure(current_sql',
                                       IF last_error \notin {None, <<>>} THEN last_error
                                       ELSE UnknownErrorMessage,
                                       "loop_exit")
    /\ UNCHANGED <<stage, args, max_retries, last_error, error_message, lvars>>
    /\ UNCHANGED ovars

\* ----------------------------------------------- generate_sql as a stage
\* a caller invokes generate_sql(session, question, schema_context)
GeneratorCall ==
    /\ pc = "idle"
    /\ \E q \in Questions, ctx \in SchemaContexts, c \in GeneratorOutcomes :
        /\ args' = [question |-> q, schema_context |-> ctx]
        /\ calls' = calls \o GenerateEvents(q, ctx, c)
                          \o (IF GenerateRejectsInput(q, ctx) THEN <<>>
                              ELSE <<[op |-> "completion", outcome |-> c.kind,
                                      text |-> c.text]>>)
        /\ ret' = IF c.kind = "raise" /\ ~GenerateRejectsInput(q, ctx)
                      /\ ~Handles("complete")
                   THEN Raised("complete")
                   ELSE [kind |-> "sql", sql |-> generate_sql(q, ctx, c)]
    /\ stage' = "generator"
    /\ pc' = "done"
    /\ UNCHANGED <<vvars, lvars>>
    /\ UNCHANGED ovars

\* ------------------------------------------------ link_schema as a stage
Tables(list) == [kind |-> "tables", tables |-> list]

\* link_schema(session, q, n) up to the search call
EnterLinker(q, n) ==
    /\ stage' = "linker"
    /\ args' = [question |-> q, limit |-> n]
    /\ IF IsBlank(q)
       THEN pc' = "done" /\ ret' = Tables(<<>>) /\ limit' = limit
       ELSE pc' = "searching" /\ ret' = NoRet /\ limit' = CoerceLimit(n)

\* a caller invokes link_schema
LinkerCall ==
    /\ pc = "idle"
    /\ \E q \in Questions, n \in Limits : EnterLinker(q, n)
    /\ UNCHANGED <<vvars, tables, needed, calls>>
    /\ UNCHANGED ovars

\* the branch of the exception handler of link_schema
SearchErrorBranch_OnlyServiceMissing(kind) ==
    IF kind = "raise_service_missing" THEN "keyword" ELSE "return_empty"

SearchErrorBranch(kind) ==
    IF kind = "raise_service_missing" THEN "keyword"
    ELSE IF kind = "raise_table_descriptions" THEN "return_empty"
    ELSE "keyword"

\* the search call and the semantic tier
Search ==
    /\ stage = "linker" /\ pc = "searching"
    /\ \E o \in SearchOutcomes :
        /\ calls' = Append(calls, [op |-> "search", question |-> args.question,
                                   limit |-> limit * 10, outcome |-> o.kind,
                                   results |-> o.results])
        /\ IF o.kind \in {"norows", "noresults"}
              \/ (o.kind = "results" /\ o.results = <<>>)
           THEN pc' = "done" /\ ret' = Tables(<<>>) /\ tables' = tables
           ELSE IF o.kind = "results"
           THEN /\ tables' = SemanticTables(o.results, limit)
                /\ pc' = "done"
                /\ ret' = Tables(tables')
           ELSE IF ~Handles("search")
           THEN Escapes("search") /\ tables' = tables
           ELSE IF SearchErrorBranch(o.kind) = "keyword"
           THEN pc' = "keyword" /\ ret' = ret /\ tables' = tables
           ELSE pc' = "done" /\ ret' = Tables(<<>>) /\ tables' = tables
    /\ UNCHANGED <<stage, args, vvars, limit, needed>>
    /\ UNCHANGED ovars

\* _fallback_keyword_search: a query that raised or returned zero rows hands
\* over to _get_all_tables, any other goes on to group, filter and supplement
KeywordBranch_RaiseOnly(kind, rows) ==
    IF kind = "raise" THEN "catalog" ELSE "supplement"

KeywordBranch_Always(kind, rows) == "catalog"

KeywordBranch(kind, rows) ==
    IF kind = "raise" \/ rows = <<>> THEN "catalog" ELSE "supplement"

\* _fallback_keyword_search up to _supplement_related_tables' fetch
KeywordSearch ==
    /\ stage = "linker" /\ pc = "keyword"
    /\ \E o \in QueryOutcomes(KeywordRows \cup {<<>>}) :
        /\ calls' = Append(calls, [op |-> "keyword_query", limit |-> limit * 15,
                                   outcome |-> o.kind, rows |-> o.rows])
        /\ IF o.kind = "raise" /\ ~Handles("keyword_query")
           THEN Escapes("keyword_query") /\ UNCHANGED <<tables, needed>>
           ELSE IF KeywordBranch(o.kind, o.rows) = "catalog"
           THEN pc' = "catalog" /\ UNCHANGED <<tables, needed, ret>>
           ELSE /\ tables' = KeywordTables(o.rows, limit)
                /\ needed' = NeededPartners(tables')
                /\ IF needed' = {}
                   THEN pc' = "done" /\ ret' = Tables(tables')
                   ELSE pc' = "fetch_metadata" /\ ret' = ret
    /\ UNCHANGED <<stage, args, vvars, limit>>
    /\ UNCHANGED ovars

\* _fetch_tables_by_name: the TABLE_DESCRIPTIONS query
FetchPartnersFromMetadata ==
    /\ stage = "linker" /\ pc = "fetch_metadata"
    /\ \E o \in QueryOutcomes(PartnerRows(needed)) :
        /\ calls' = Append(calls, [op |-> "partner_metadata_query", names |-> needed,
                                   outcome |-> o.kind, rows |-> o.rows])
        /\ IF o.kind = "raise" /\ ~Handles("partner_metadata_query")
           THEN Escapes("partner_metadata_query") /\ tables' = tables
           ELSE IF o.kind = "raise" \/ o.rows = <<>>
           THEN pc' = "fetch_catalog" /\ UNCHANGED <<tables, ret>>
           ELSE /\ tables' = tables \o GroupFixedScore(o.rows, MetadataPartnerScore)
                /\ pc' = "done"
                /\ ret' = Tables(tables')
    /\ UNCHANGED <<stage, args, vvars, limit, needed>>
    /\ UNCHANGED ovars

\* _fetch_tables_by_name: the INFORMATION_SCHEMA query
FetchPartnersFromCatalog ==
    /\ stage = "linker" /\ pc = "fetch_catalog"
    /\ \E o \in QueryOutcomes(PartnerRows(needed)) :
        /\ calls' = Append(calls, [op |-> "partner_catalog_query", names |-> needed,
                                   outcome |-> o.kind, rows |-> o.rows])
        /\ tables' = IF o.kind = "raise" THEN tables
                     ELSE tables \o GroupFixedScore(o.rows, CatalogPartnerScore)
        /\ ret' = IF o.kind = "raise" /\ ~Handles("partner_catalog_query")
                   THEN Raised("partner_catalog_query")
                   ELSE Tables(tables')
    /\ pc' = "done"
    /\ UNCHANGED <<stage, args, vvars, limit, needed>>
    /\ UNCHANGED ovars

\* _get_all_tables
GetAllTables ==
    /\ stage = "linker" /\ pc = "catalog"
    /\ \E o \in QueryOutcomes(CatalogRows) :
        /\ calls' = Append(calls, [op |-> "catalog_query", outcome |-> o.kind,
                                   rows |-> o.rows])
        /\ tables' = IF o.kind = "raise" THEN <<>>
                     ELSE Truncate(GroupFixedScore(o.rows, AllTablesScore), limit)
        /\ ret' = IF o.kind = "raise" /\ ~Handles("catalog_query")
                   THEN Raised("catalog_query")
                   ELSE Tables(tables')
    /\ pc' = "done"
    /\ UNCHANGED <<stage, args, vvars, limit, needed>>
    /\ UNCHANGED ovars

Next ==
    \/ ValidatorCall
    \/ Validate
    \/ Execute
    \/ Regenerate
    \/ GeneratorCall
    \/ LinkerCall
    \/ Search
    \/ KeywordSearch
    \/ FetchPartnersFromMetadata
    \/ FetchPartnersFromCatalog
    \/ GetAllTables

Spec == Init /\ [][Next]_vars

\* every call to a collaborator returns, so a step of the retry loop that
\* is pending is eventually taken
FairSpec == Spec /\ WF_vars(Validate) /\ WF_vars(Execute) /\ WF_vars(Regenerate)

\* ---------------------------------------------------------------- history
\* positions in the log of the calls of one kind
CallsOf(op) == {i \in 1..Len(calls) : calls[i].op = op}
Count(op) == Cardinality(CallsOf(op))

InValidator == stage = "validator"
Returned == pc = "done"

\* an iteration failed: its explain failed, or its run failed
FailedCalls == {i \in 1..Len(calls) : calls[i].op \in {"explain", "run"} /\ ~calls[i].ok}

\* -------------------------------------------------------------------- C1
\* C1: for max_retries = N >= 0, one call of validate_and_execute issues at
\* most N+1 explain calls and at most N+1 run calls.
C1_RetryBound ==
    (InValidator /\ args.max_retries >= 0) =>
        /\ Count("explain") <= args.max_retries + 1
        /\ Count("run") <= args.max_retries + 1

\* the bound is met: N+1 explains and N+1 runs with N >= 2
C1_Witness ==
    /\ InValidator /\ args.max_retries >= 2
    /\ Count("explain") = args.max_retries + 1
    /\ Count("run") = args.max_retries + 1

\* -------------------------------------------------------------------- C2
\* C2: every run call is immediately preceded, in the same iteration, by a
\* successful explain call on the identical SQL text.
C2_ValidationPrecedesExecution ==
    \A i \in CallsOf("run") :
        /\ i > 1
        /\ calls[i - 1].op = "explain"
        /\ calls[i - 1].ok
        /\ calls[i - 1].sql = calls[i].sql
        /\ calls[i - 1].attempt = calls[i].attempt

\* a run on a regenerated SQL, after an earlier explain failed
C2_Witness ==
    \E i \in CallsOf("run") :
        /\ calls[i].sql # args.sql
        /\ \E j \in CallsOf("explain") : j < i /\ ~calls[j].ok

\* -------------------------------------------------------------------- C3
\* C3: the final_sql returned equals the SQL text of the last explain call
\* of the invocation, for Success and for Failure.
C3_FinalSqlIsLastExplained ==
    (InValidator /\ Returned /\ CallsOf("explain") # {}) =>
        ret.final_sql = calls[MaxOf(CallsOf("explain"))].sql

\* a Failure returned after a regeneration changed the SQL
C3_Witness ==
    /\ InValidator /\ Returned /\ ret.kind = "Failure"
    /\ Count("explain") >= 2
    /\ ret.final_sql # args.sql

\* -------------------------------------------------------------------- C4
\* C4: a successful run ends the invocation: it is the last call made, and
\* the function has returned (current_sql, handle) for the SQL that ran.
C4_SuccessShortCircuit ==
    \A i \in CallsOf("run") :
        calls[i].ok =>
            /\ i = Len(calls)
            /\ Returned
            /\ ret.kind = "Success"
            /\ ret.final_sql = calls[i].sql
            /\ ret.final_sql = current_sql

\* a success in an iteration that still had retries left
C4_Witness ==
    /\ InValidator /\ Returned /\ ret.kind = "Success"
    /\ attempt < max_retries
    /\ Count("generate") >= 1

\* -------------------------------------------------------------------- C5
\* calls that remain before the loop must end: three per remaining
\* iteration (explain, run, regenerate), less those of this iteration
Measure ==
    IF ~InValidator THEN 3 * (MaxRetriesBound + 2)
    ELSE IF Returned THEN 0
    ELSE 3 * (max_retries - attempt)
         + (CASE pc = "validating" -> 3 [] pc = "executing" -> 2 [] OTHER -> 1)

\* C5: validate_and_execute terminates: every step of it strictly decreases
\* a natural-number measure, and every invocation reaches a terminal state
\* with exactly one of Success or Failure returned.
C5_Termination ==
    /\ [][InValidator' => (Measure' < Measure /\ Measure' >= 0)]_vars
    /\ [](InValidator => <>(Returned /\ ret.kind \in {"Success", "Failure"}))

\* the loop ran to its last iteration while the generator returned nothing
C5_Witness ==
    /\ InValidator /\ Returned
    /\ max_retries = MaxRetriesBound /\ attempt = max_retries
    /\ \A i \in CallsOf("generate") : calls[i].result = <<>>

\* -------------------------------------------------------------------- C6
\* the message validate_and_execute keeps for a failed explain or run call
MessageOf(call) ==
    IF call.op = "explain" THEN CleanedError[call.raw]
    ELSE ExecutionError(CleanedError[call.raw])

\* C6: apart from the empty-SQL short-circuit, a Failure is returned only
\* from a failed iteration with attempt = max_retries, after exactly
\* max_retries regenerations and max_retries + 1 failed iterations (one per
\* attempt number), and its message is the error of that last iteration.
C6_FailureOnlyWhenExhausted ==
    (InValidator /\ Returned /\ ret.kind = "Failure" /\ ~IsBlank(args.sql)) =>
        /\ attempt = max_retries
        /\ Count("generate") = max_retries
        /\ Cardinality(FailedCalls) = max_retries + 1
        /\ \A k \in 0..max_retries :
              Cardinality({i \in FailedCalls : calls[i].attempt = k}) = 1
        /\ Len(calls) \in FailedCalls
        /\ calls[Len(calls)].attempt = max_retries
        /\ ret.result = MessageOf(calls[Len(calls)])

\* a Failure after retries whose earlier iteration failed with another error
C6_Witness ==
    /\ InValidator /\ Returned /\ ret.kind = "Failure"
    /\ max_retries >= 2
    /\ \E i \in FailedCalls : MessageOf(calls[i]) # ret.result

C8_EmptyInputSafety ==
    /\ (stage = "linker" /\ IsBlank(args.question)) =>
          (Returned /\ ret = Tables(<<>>) /\ calls = <<>>)
    /\ (stage = "generator" /\ (IsBlank(args.question) \/ args.schema_context = <<>>)) =>
          (Returned /\ ret.sql = <<>> /\ Count("complete") = 0)
    /\ (InValidator /\ IsBlank(args.sql)) =>
          /\ Returned /\ ret.kind = "Failure" /\ ret.result = EmptySqlMessage
          /\ ret.final_sql = args.sql
          /\ calls = <<>>

\* generate_sql returned on an empty schema_context with a real question
C8_Witness ==
    /\ stage = "generator" /\ Returned
    /\ ~IsBlank(args.question) /\ args.schema_context = <<>>
    /\ ret.sql = <<>>

\* the other two cases: a whitespace-only SQL and a whitespace-only question
C8_WitnessValidator ==
    InValidator /\ Returned /\ args.sql = <<" ">> /\ ret.kind = "Failure"

C8_WitnessLinker ==
    stage = "linker" /\ Returned /\ args.question = <<" ">> /\ ret = Tables(<<>>)

\* -------------------------------------------------------------------- C9
\* C9: with max_retries = 0, or negative (coerced to 0), an invocation that
\* passes the empty-SQL check makes exactly one explain call and no
\* generator call; when that explain fails the result is Failure with the
\* cleaned message of that attempt and the unchanged input SQL.
C9_NoRetries ==
    (InValidator /\ args.max_retries <= 0 /\ ~IsBlank(args.sql)) =>
        /\ Count("generate") = 0
        /\ Count("explain") <= 1
        /\ Returned =>
            /\ Count("explain") = 1
            /\ ~calls[1].ok =>
                /\ ret.kind = "Failure"
                /\ ret.result = CleanedError[calls[1].raw]
                /\ ret.final_sql = args.sql

\* a negative max_retries whose single explain failed
C9_Witness ==
    /\ InValidator /\ Returned /\ args.max_retries < 0
    /\ Count("explain") = 1 /\ ~calls[1].ok
    /\ ret.kind = "Failure"

\* ------------------------------------------------------------------- C10
\* the explain call of iteration k (attempt = k), 0 when it was not made
ExplainOf(k) ==
    IF \E i \in CallsOf("explain") : calls[i].attempt = k
    THEN CHOOSE i \in CallsOf("explain") : calls[i].attempt = k
    ELSE 0

\* the generator call that ended iteration k
GenerateAfter(k) == MinOf({i \in CallsOf("generate") : i > ExplainOf(k)})

\* explain fails on the first two attempts with distinct messages and
\* succeeds on the third, max_retries = 3, and the invocation has returned
C10_Scenario ==
    /\ InValidator /\ Returned /\ args.max_retries = 3
    /\ ExplainOf(0) # 0 /\ ExplainOf(1) # 0 /\ ExplainOf(2) # 0
    /\ ~calls[ExplainOf(0)].ok /\ ~calls[ExplainOf(1)].ok /\ calls[ExplainOf(2)].ok
    /\ MessageOf(calls[ExplainOf(0)]) # MessageOf(calls[ExplainOf(1)])

InLinker == stage = "linker"
LinkerReturned == InLinker /\ Returned /\ ret.kind = "tables"
ReturnedNames == {ret.tables[i].table_name : i \in 1..Len(ret.tables)}
LastCall == calls[Len(calls)]

\* ------------------------------------------------------------------- C11
\* C11: the list returned by link_schema never contains the excluded table
\* SUPERSTORE_SALES, whichever tier produced it.
C11_DatasetIsolation ==
    LinkerReturned => ExcludedTable \notin ReturnedNames

\* the one call of each tier in the log (0 when the tier was not attempted)
TierCall(op) == IF CallsOf(op) = {} THEN 0 ELSE CHOOSE i \in CallsOf(op) : TRUE
Attempted(op) == CallsOf(op) # {}
NonBlankLinkerReturn == LinkerReturned /\ ~IsBlank(args.question)

\* a tier errored or yielded nothing
SearchYieldedNothing ==
    /\ Attempted("search")
    /\ \/ calls[TierCall("search")].outcome # "results"
       \/ SemanticTables(calls[TierCall("search")].results, limit) = <<>>
KeywordYieldedNothing ==
    /\ Attempted("keyword_query")
    /\ \/ calls[TierCall("keyword_query")].outcome = "raise"
       \/ KeywordTables(calls[TierCall("keyword_query")].rows, limit) = <<>>

\* ------------------------------------------------------------------- C12
\* C12 as stated: for a non-empty question link_schema returns an empty
\* sequence only after all three tiers were attempted, and a tier that errors
\* or yields nothing is always followed by the next weaker tier.
C12_Original ==
    NonBlankLinkerReturn =>
        /\ ret.tables = <<>> =>
              Attempted("search") /\ Attempted("keyword_query") /\ Attempted("catalog_query")
        /\ SearchYieldedNothing => Attempted("keyword_query")
        /\ KeywordYieldedNothing => Attempted("catalog_query")

\* C12 amended: a search error other than the table_descriptions error is
\* followed by the keyword tier, and a keyword query that raises or returns
\* zero rows is followed by the full-catalog tier; an empty sequence for a
\* non-empty question comes from the semantic tier (no row, no result, only
\* the excluded table, or the table_descriptions error), from the keyword
\* tier whose truncated match held only the excluded table, or from the
\* full-catalog tier that raised or found no table.
C12_Amended ==
    NonBlankLinkerReturn =>
        /\ calls[1].op = "search"
        /\ calls[1].outcome \in {"raise_service_missing", "raise_other"} =>
              Len(calls) >= 2 /\ calls[2].op = "keyword_query"
        /\ \A i \in CallsOf("keyword_query") :
              (calls[i].outcome = "raise" \/ calls[i].rows = <<>>) =>
                  Len(calls) = i + 1 /\ calls[i + 1].op = "catalog_query"
        /\ ret.tables = <<>> =>
              \/ /\ LastCall.op = "search"
                 /\ \/ LastCall.outcome \in {"norows", "noresults", "raise_table_descriptions"}
                    \/ /\ LastCall.outcome = "results"
                       /\ \A j \in 1..Len(LastCall.results) :
                             LastCall.results[j].table_name = ExcludedTable
              \/ /\ LastCall.op = "keyword_query"
                 /\ LastCall.outcome = "rows"
                 /\ LastCall.rows # <<>>
                 /\ LastCall.rows[1].table_name = ExcludedTable
              \/ /\ LastCall.op = "catalog_query"
                 /\ (LastCall.outcome = "raise" \/ LastCall.rows = <<>>)

\* all three tiers were attempted and the full catalog gave nothing
C12_Witness ==
    /\ NonBlankLinkerReturn /\ ret.tables = <<>>
    /\ Len(calls) = 3
    /\ calls[1].outcome = "raise_other"
    /\ calls[2].op = "keyword_query" /\ calls[2].outcome = "rows" /\ calls[2].rows = <<>>
    /\ calls[3].op = "catalog_query" /\ calls[3].outcome = "raise"

\* ------------------------------------------------------------------- C13
SearchRaised ==
    /\ InLinker /\ Attempted("search")
    /\ calls[1].outcome \in {"raise_service_missing", "raise_table_descriptions", "raise_other"}

\* C13 as stated: every error raised by the search call triggers the keyword
\* tier; no search error makes link_schema return without attempting it.
C13_Original ==
    (SearchRaised /\ Returned) => Attempted("keyword_query")

\* C13 amended: after a search error the keyword query is the very next
\* call, except for an error whose message names table_descriptions (and is
\* not the service-not-found condition): then link_schema returns the empty
\* list with no further call.
C13_Amended ==
    SearchRaised =>
        IF calls[1].outcome = "raise_table_descriptions"
        THEN Returned /\ ret = Tables(<<>>) /\ Len(calls) = 1
        ELSE \/ pc = "keyword" /\ Len(calls) = 1
             \/ Len(calls) >= 2 /\ calls[2].op = "keyword_query"

\* a search error of the general kind, answered by the keyword tier
C13_Witness ==
    /\ SearchRaised /\ Returned
    /\ calls[1].outcome = "raise_other"
    /\ Len(calls) = 2 /\ calls[2].op = "keyword_query"
    /\ ret.kind = "tables" /\ ret.tables # <<>>

\* ------------------------------------------------------------------- C14
\* C14: when the search service fails, the keyword query precedes the
\* full-catalog query, and the full-catalog query (_get_all_tables) is made
\* only right after a keyword query that raised or returned zero rows, never
\* after a keyword query that returned rows.
C14_FallbackOrdering ==
    InLinker =>
        /\ \A i \in CallsOf("catalog_query") :
              /\ i = 3
              /\ calls[1].op = "search" /\ calls[1].outcome # "results"
              /\ calls[2].op = "keyword_query"
              /\ (calls[2].outcome = "raise" \/ calls[2].rows = <<>>)
        /\ \A i \in CallsOf("keyword_query") :
              (calls[i].outcome = "rows" /\ calls[i].rows # <<>>) =>
                  (pc # "catalog" /\ ~Attempted("catalog_query"))

\* the catalog tier answered after the keyword query returned zero rows
C14_Witness ==
    /\ LinkerReturned /\ Len(calls) = 3
    /\ calls[2].op = "keyword_query" /\ calls[2].outcome = "rows" /\ calls[2].rows = <<>>
    /\ calls[3].op = "catalog_query" /\ ret.tables # <<>>

\* ------------------------------------------------------------------- C15
\* the FK partners the claim declares
DeclaredPartners ==
    [t \in {"ORDER_ITEMS", "ORDER_REVIEWS", "ORDER_PAYMENTS", "ORDERS", "CUSTOMERS",
            "SUPERSTORE_SALES"} |->
        IF t \in {"ORDER_ITEMS", "ORDER_REVIEWS", "ORDER_PAYMENTS"} THEN {"ORDERS"}
        ELSE IF t = "ORDERS" THEN {"CUSTOMERS"} ELSE {}]

\* the keyword tier's result (directly matched tables) and the declared
\* partners absent from it
KeywordResult ==
    IF Attempted("keyword_query") /\ calls[TierCall("keyword_query")].outcome = "rows"
    THEN KeywordTables(calls[TierCall("keyword_query")].rows, limit)
    ELSE <<>>
KeywordNames == {KeywordResult[i].table_name : i \in 1..Len(KeywordResult)}
AbsentPartners == UNION {DeclaredPartners[n] \ KeywordNames : n \in KeywordNames}
KeywordReturn == LinkerReturned /\ KeywordResult # <<>> /\ AbsentPartners # {}

\* the table names a partner query returned; the store that answered
RowNames(rows) == {rows[i].table_name : i \in 1..Len(rows)}
MetadataAnswer ==
    IF Attempted("partner_metadata_query")
    THEN RowNames(calls[TierCall("partner_metadata_query")].rows) ELSE {}
CatalogAnswer ==
    IF Attempted("partner_catalog_query")
    THEN RowNames(calls[TierCall("partner_catalog_query")].rows) ELSE {}
Appended == SubSeq(ret.tables, Len(KeywordResult) + 1, Len(ret.tables))

C16_LimitBound ==
    LinkerReturned =>
        Len(ret.tables) <= (IF args.limit < 1 THEN DefaultLimit ELSE args.limit)

\* ------------------------------------------------------------------- C17
\* C17: the list returned by link_schema is sorted by relevance_score in
\* non-increasing order in every tier, also after the dataset-mixing filter
\* and after FK partner tables have been appended.
C17_RankOrder ==
    LinkerReturned =>
        \A i, j \in 1..Len(ret.tables) :
            i < j => ret.tables[i].relevance_score >= ret.tables[j].relevance_score

\* a semantic result whose best table was not the first one found
C17_Witness ==
    /\ LinkerReturned /\ Len(calls) = 1
    /\ LastCall.outcome = "results"
    /\ LastCall.results[1].table_name = "ORDER_ITEMS"
    /\ Len(ret.tables) = 2
    /\ ret.tables[1].table_name = "ORDERS"
    /\ ret.tables[1].relevance_score > ret.tables[2].relevance_score

\* a keyword result with an appended partner
C17_WitnessKeyword ==
    /\ KeywordReturn /\ Len(ret.tables) > Len(KeywordResult)

\* ---------------------------------------------------------- generate_sql
InGenerator == stage = "generator"
GeneratorReturned == InGenerator /\ Returned /\ ret.kind = "sql"
\* the completion service was called and replied with a text
Replied ==
    /\ GeneratorReturned /\ Attempted("completion")
    /\ calls[TierCall("completion")].outcome = "text"
Reply == calls[TierCall("completion")].text

\* the reply holds neither a fenced block nor a statement-leading keyword
NoSqlIn(text) ==
    /\ Cardinality(Positions(text, {Fence})) < 2
    /\ Positions(text, SqlStartWords) = {}

\* ------------------------------------------------------------------- C18
\* C18: generate_sql returns the empty string whenever no SQL statement can
\* be extracted from the completion: a reply with neither a fenced block nor
\* a statement-leading keyword gives "", never the non-SQL text itself.
C18_EmptyWhenNoSql ==
    (Replied /\ NoSqlIn(Reply)) => ret.sql = <<>>

\* ------------------------------------------------------------------- C19
\* a collaborator call of the log failed
SomeCallFailed ==
    \E i \in 1..Len(calls) :
        \/ calls[i].op \in {"explain", "run"} /\ ~calls[i].ok
        \/ /\ calls[i].op \in {"search", "keyword_query", "partner_metadata_query",
                               "partner_catalog_query", "catalog_query", "completion"}
           /\ calls[i].outcome \in {"raise", "raise_service_missing",
                                    "raise_table_descriptions", "raise_other"}

\* C19: no failure of the search, metadata/catalog, completion or warehouse
\* calls escapes a stage as a raised error: link_schema returns a list,
\* generate_sql a string and validate_and_execute a (sql, result) pair.
C19_NoEscape ==
    Returned =>
        /\ ret.kind # "raised"
        /\ InLinker => ret.kind = "tables"
        /\ InGenerator => ret.kind = "sql"
        /\ InValidator => ret.kind \in {"Success", "Failure"}

\* validate_and_execute returns a Failure pair after the run call raised
C19_Witness ==
    /\ InValidator /\ Returned /\ SomeCallFailed
    /\ LastCall.op = "run" /\ ~LastCall.ok
    /\ ret.kind = "Failure" /\ ret.final_sql = current_sql

\* link_schema returns a list after the search, keyword and catalog calls raised
C19_WitnessLinker ==
    /\ LinkerReturned /\ Len(calls) = 3
    /\ calls[1].outcome = "raise_other"
    /\ calls[2].outcome = "raise" /\ calls[3].outcome = "raise"
    /\ ret.tables = <<>>

\* generate_sql returns a string after the completion call raised
C19_WitnessGenerator ==
    /\ GeneratorReturned /\ Attempted("completion")
    /\ calls[TierCall("completion")].outcome = "raise"
    /\ ret.sql = <<>>

\* ------------------------------------------------------------------- C20
\* the tables a SQL text references: the names that follow the qualifier
TablesReferenced(sql) ==
    {sql[i + 1] : i \in {k \in 1..Len(sql) - 1 : sql[k] = "ANALYTICS_COPILOT.RAW."}}

\* the tables the prompt allows, derived from the supplied schema_context
AllowedTables(ctx) == {ctx[i].table_name : i \in 1..Len(ctx)}

\* C20: the SQL returned by generate_sql references only tables whose
\* qualified names are derived from the supplied schema_context, for every
\* response of the completion service.
C20_AllowedTables ==
    GeneratorReturned =>
        TablesReferenced(ret.sql) \subseteq AllowedTables(args.schema_context)

\* ---------------------------------------------- the text functions alone
\* fenced replies: optional prose, a fence, an optional tag, the statement,
\* optional semicolons, the closing fence, optional prose
FencedPrefixes == {<<>>, <<"Here is the query:", "\n">>}
FencedTags == {<<>>, <<"sql">>, <<"SQL">>}
FencedGaps == {<<>>, <<"\n">>}
FencedBodies ==
    { <<"SELECT", " ", "1">>,
      <<"SELECT", " ", " ", "1">>,
      <<"SELECT", " ", "1", "\n", "\n", "FROM", " ", "ANALYTICS_COPILOT.RAW.", "ORDERS">>,
      <<"SELECT", " ", "1", "\n", "\t", "FROM", " ", "ANALYTICS_COPILOT.RAW.", "ORDERS">> }
FencedEndings == {<<>>, <<";">>, <<";", ";">>, <<";", " ", ";">>}
FencedSuffixes == {<<>>, <<"\n", "\n", "This query counts rows.">>}

FencedReply(pre, tag, gap, body, ending, gap2, post) ==
    pre \o <<Fence>> \o tag \o gap \o body \o ending \o gap2 \o <<Fence>> \o post

FencedReplies ==
    {FencedReply(pre, tag, gap, body, ending, gap2, post) :
        pre \in FencedPrefixes, tag \in FencedTags, gap \in FencedGaps,
        body \in FencedBodies, ending \in FencedEndings, gap2 \in FencedGaps,
        post \in FencedSuffixes}

\* a caller holds a reply and applies _extract_sql to it
\* the lines of the diagnostics given to _extract_error_message
DiagnosticLines ==
    { <<>>, <<" ">>, <<"\t", " ">>,
      <<"invalid identifier X">>,
      <<" ", "line 1 at position 14", " ">>,
      <<"Error:", " ", "invalid identifier X">>,
      <<"Error:", " ", " ", "SQL compilation error:">>,
      <<" ", "SnowflakeError:", " ", "error", " ">>,
      <<"Exception:", " ", "Error:", " ", "SQL compilation error:">>,
      <<"Error:", " ", "Exception:", " ", "Execution error:">>,
      <<"Exception:", " ", "syntax problem at EOF">> }

\* diagnostics of one, two and three lines (the empty one among them) and
\* the gateway's diagnostics
Diagnostics ==
    DiagnosticLines
    \cup {a \o <<"\n">> \o b : a, b \in DiagnosticLines}
    \cup {a \o <<"\n">> \o b \o <<"\n">> \o c :
             a \in {<<>>, <<" ">>, <<"invalid identifier X">>}, b, c \in DiagnosticLines}
    \cup RawErrors

FunctionInit ==
    /\ stage = "function"
    /\ pc = "input"
    /\ \/ \E t \in FencedReplies \cup GeneratorTexts :
             args = [fn |-> "_extract_sql", text |-> t]
       \/ \E d \in Diagnostics :
             args = [fn |-> "_extract_error_message", text |-> d]
    /\ max_retries = 0
    /\ current_sql = <<>>
    /\ attempt = 0
    /\ last_error = None
    /\ error_message = None
    /\ limit = 0
    /\ tables = <<>>
    /\ needed = {}
    /\ ret = NoRet
    /\ calls = <<>>
    /\ OthersInit

Text(t) == [kind |-> "text", text |-> t]

ExtractSqlCall ==
    /\ stage = "function" /\ pc = "input" /\ args.fn = "_extract_sql"
    /\ ret' = Text(_extract_sql(args.text))
    /\ pc' = "done"
    /\ UNCHANGED <<stage, args, vvars, lvars, calls>>
    /\ UNCHANGED ovars

ExtractErrorCall ==
    /\ stage = "function" /\ pc = "input" /\ args.fn = "_extract_error_message"
    /\ ret' = Text(_extract_error_message(args.text))
    /\ pc' = "done"
    /\ UNCHANGED <<stage, args, vvars, lvars, calls>>
    /\ UNCHANGED ovars

FunctionNext ==
    \/ ExtractSqlCall
    \/ ExtractErrorCall

FunctionSpec == FunctionInit /\ [][FunctionNext]_vars

\* ------------------------------------------------------------------- C21
FunctionReturned(fn) == stage = "function" /\ pc = "done" /\ args.fn = fn
IsFenced(text) == Cardinality(Positions(text, {Fence})) >= 2

\* the tokens between the first two fences, without the tag
FencedBody(text) ==
    LET i     == MinOf(Positions(text, {Fence}))
        j     == MinOf(Positions(text, {Fence}) \ {i})
        inner == SubSeq(text, i + 1, j - 1)
    IN IF inner # <<>> /\ Head(inner) \in SqlTags THEN Tail(inner) ELSE inner

\* a text without the whitespace and semicolons at its end
RECURSIVE TrimEnd(_)
TrimEnd(s) ==
    IF s # <<>> /\ (IsSpace(s[Len(s)]) \/ s[Len(s)] = ";")
    THEN TrimEnd(SubSeq(s, 1, Len(s) - 1)) ELSE s

\* the fenced statement: the body without surrounding whitespace and
\* without trailing semicolons
FencedStatement(text) == LStrip(TrimEnd(FencedBody(text)))

\* a text with every maximal run of whitespace replaced by one mark
RECURSIVE Skeleton(_)
Skeleton(s) ==
    IF s = <<>> THEN <<>>
    ELSE IF IsSpace(Head(s))
         THEN IF Len(s) >= 2 /\ IsSpace(s[2]) THEN Skeleton(Tail(s))
              ELSE <<"<ws>">> \o Skeleton(Tail(s))
         ELSE <<Head(s)>> \o Skeleton(Tail(s))

SingleSpaced(s) ==
    \A i \in 1..Len(s) :
        IsSpace(s[i]) => (s[i] # "\t" /\ (i < Len(s) => ~IsSpace(s[i + 1])))

PipelineLimit == 5
PipelineMaxRetries == 3

\* mutant: the caller goes on with an empty context
HasContext_Always(schema_context) == TRUE

\* `if not schema_context`
HasContext(schema_context) == schema_context # <<>>

\* `if not sql_query or not sql_query.strip()`
HasSql(sql_query) == ~IsBlank(sql_query)

\* what the caller saw a stage return
LinkReturn(q, result) == [op |-> "link_schema", question |-> q, result |-> result]
ValidateCallEvent(s, q, ctx, n) ==
    [op |-> "validate_and_execute", sql |-> s, question |-> q, schema_context |-> ctx,
     max_retries |-> n]

\* step 1: the call of link_schema
PipelineStart ==
    /\ pc = "idle"
    /\ \E q \in Questions : EnterLinker(q, PipelineLimit)
    /\ UNCHANGED <<vvars, tables, needed, calls>>
    /\ UNCHANGED ovars

\* link_schema returned: the test of the context and step 2, the call of
\* generate_sql; from here on the log holds what link_schema returned in
\* place of the calls made inside it
AfterLink ==
    /\ stage = "linker" /\ pc = "done" /\ ret.kind = "tables"
    /\ IF ~HasContext(ret.tables)
       THEN /\ pc' = "stopped"
            /\ calls' = <<LinkReturn(args.question, ret.tables)>>
            /\ UNCHANGED <<stage, args, ret>>
       ELSE \E c \in CompletionOutcomes :
            /\ stage' = "generator"
            /\ pc' = "done"
            /\ args' = [question |-> args.question, schema_context |-> ret.tables]
            /\ calls' = <<LinkReturn(args.question, ret.tables)>>
                           \o GenerateEvents(args.question, ret.tables, c)
            /\ ret' = [kind |-> "sql", sql |-> generate_sql(args.question, ret.tables, c)]
    /\ UNCHANGED <<vvars, lvars>>
    /\ UNCHANGED ovars

\* generate_sql returned: the test of the SQL and step 3, the call of
\* validate_and_execute
AfterGenerate ==
    /\ stage = "generator" /\ pc = "done" /\ ret.kind = "sql"
    /\ IF ~HasSql(ret.sql)
       THEN /\ pc' = "stopped"
            /\ UNCHANGED <<stage, args, ret, vvars, calls>>
       ELSE /\ EnterValidator(ret.sql, args.question, args.schema_context,
                              PipelineMaxRetries)
            /\ calls' = Append(calls, ValidateCallEvent(ret.sql, args.question,
                                                        args.schema_context,
                                                        PipelineMaxRetries))
            /\ UNCHANGED error_message
    /\ UNCHANGED lvars
    /\ UNCHANGED ovars

PipelineNext ==
    \/ PipelineStart
    \/ Search
    \/ KeywordSearch
    \/ FetchPartnersFromMetadata
    \/ FetchPartnersFromCatalog
    \/ GetAllTables
    \/ AfterLink
    \/ AfterGenerate
    \/ Validate
    \/ Execute
    \/ Regenerate

PipelineSpec == Init /\ [][PipelineNext]_vars

\* ------------------------------------------------------------------- C22
\* the caller's log starts with what link_schema returned
Linked == calls # <<>> /\ calls[1].op = "link_schema"
LinkedContext == calls[1].result

\* C22: the callers run the stages in the order link_schema, generate_sql,
\* validate_and_execute for one question; generate_sql is never called after
\* link_schema returned an empty context, and validate_and_execute is never
\* called after generate_sql returned an empty or blank string.
C22_PipelineOrder ==
    /\ \A i \in 1..Len(calls) :
          /\ calls[i].op \in {"generate", "complete"} =>
                Linked /\ i > 1 /\ LinkedContext # <<>>
          /\ calls[i].op = "validate_and_execute" =>
                /\ Linked /\ i > 2
                /\ calls[2].op = "generate"
                /\ ~IsBlank(calls[2].result)
                /\ calls[i].sql = calls[2].result
                /\ calls[i].question = calls[1].question
                /\ \A j \in 1..(i - 1) : calls[j].op \notin {"explain", "run"}
                /\ \A j \in (i + 1)..Len(calls) : calls[j].op # "validate_and_execute"
          /\ calls[i].op \in {"explain", "run"} =>
                \E j \in 1..(i - 1) : calls[j].op = "validate_and_execute"
          /\ calls[i].op = "link_schema" => i = 1
    /\ stage = "generator" => Linked /\ LinkedContext # <<>>
    /\ stage = "validator" => Count("validate_and_execute") = 1
    /\ (pc = "stopped" /\ stage = "linker") => calls = <<LinkReturn(args.question, <<>>)>>
    /\ (pc = "stopped" /\ stage = "generator") =>
          IsBlank(ret.sql) /\ Count("validate_and_execute") = 0

\* the three stages ran and the run succeeded on a regenerated SQL
C22_Witness ==
    /\ stage = "validator" /\ pc = "done" /\ ret.kind = "Success"
    /\ Linked /\ Count("generate") = 2 /\ Count("validate_and_execute") = 1
    /\ ret.final_sql # calls[2].result

\* the caller stopped after an empty context, and after a blank SQL
C22_WitnessNoContext == pc = "stopped" /\ stage = "linker" /\ ~IsBlank(args.question)
C22_WitnessNoSql == pc = "stopped" /\ stage = "generator" /\ ret.sql = <<>>

\* ------------------------------------------------------------------- C23
\* C23: after link_schema returns, the schema context is never modified:
\* every generate_sql call, the regenerations of validate_and_execute
\* included, receives the same schema_context with the same tables, columns,
\* scores and order, and the prompt lists exactly its tables.
C23_ContextFrame ==
    Linked =>
        /\ \A i \in 1..Len(calls) :
              /\ calls[i].op \in {"generate", "validate_and_execute"} =>
                    calls[i].schema_context = LinkedContext
              /\ calls[i].op = "complete" =>
                    /\ calls[i].prompt.schema_context = LinkedContext
                    /\ calls[i].prompt.available_tables =
                          [j \in 1..Len(LinkedContext) |->
                              <<"ANALYTICS_COPILOT.RAW.", LinkedContext[j].table_name>>]
        /\ stage \in {"generator", "validator"} => args.schema_context = LinkedContext

\* two regenerations were made with the context of two tables that
\* link_schema returned
C23_Witness ==
    /\ Linked /\ stage = "validator" /\ pc = "done"
    /\ Len(LinkedContext) = 2
    /\ Count("generate") = 3 /\ Count("complete") = 3

\* ------------------------------ interleaved validate_and_execute calls
\* the arguments of the two invocations: different questions, each with its
\* own candidate SQL, and a retry bound of its own
PairQuestions ==
    [i \in Invocations |->
        IF i = 1 THEN <<"How many orders were placed in 2017?">>
        ELSE <<"Which customers ordered most?">>]
PairSql == [i \in Invocations |-> IF i = 1 THEN <<"SELECT", " ", "1">>
                                  ELSE <<"SELECT", " ", "3">>]
PairRetries == {0, 1}

\* mutant: the locals are module-level names, shared by all invocations
Local_Shared(i) == 1

\* the frame that holds the locals of invocation i: attempt, last_error,
\* current_sql and max_retries are names local to the call
Local(i) == i

\* validate_and_execute up to the first loop test, as a value
StartFrame(s, q, ctx, n) ==
    [sql |-> s, question |-> q, schema_context |-> ctx,
     max_retries |-> IF IsBlank(s) THEN n ELSE CoerceMaxRetries(n),
     current_sql |-> s, attempt |-> 0, last_error |-> None, error_message |-> None,
     pc  |-> IF ~IsBlank(s) /\ LoopContinues(0, CoerceMaxRetries(n))
             THEN "validating" ELSE "done",
     ret |-> IF IsBlank(s) THEN Failure(s, EmptySqlMessage, "empty_sql")
             ELSE IF LoopContinues(0, CoerceMaxRetries(n)) THEN NoRet
             ELSE Failure(s, UnknownErrorMessage, "loop_exit")]

\* one step of the loop on the locals f, for the outcome o of its call
ValidateStep(f, o) ==
    LET v == _validate_sql(o)
        b == ValidateBranch(v.is_valid, f.attempt, f.max_retries)
    IN [f EXCEPT
          !.last_error = IF v.is_valid THEN @ ELSE v.error_message,
          !.error_message = IF b = "retry" THEN v.error_message ELSE @,
          !.pc = CASE b = "execute" -> "executing"
                   [] b = "retry" -> "regenerating"
                   [] OTHER -> "done",
          !.ret = IF b = "return_failure"
                  THEN Failure(f.current_sql, v.error_message, "validate_failure")
                  ELSE @]

ExecuteStep(f, o) ==
    LET x == _execute_sql(o)
        b == ExecuteBranch(x.ok, f.attempt, f.max_retries)
    IN [f EXCEPT
          !.last_error = IF x.ok THEN @ ELSE ExecutionError(x.exec_error),
          !.error_message = IF b = "retry" THEN x.exec_error ELSE @,
          !.pc = IF b = "retry" THEN "regenerating" ELSE "done",
          !.ret = CASE b = "return_success" -> Success(f.current_sql)
                    [] b = "return_failure" ->
                         Failure(f.current_sql, ExecutionError(x.exec_error),
                                 "execute_failure")
                    [] OTHER -> @]

RegenerateStep(f, c) ==
    LET new_sql == _retry_with_error_feedback(f.question, f.schema_context,
                                              f.error_message, f.current_sql, c)
        a       == NextAttempt(f.attempt)
    IN [f EXCEPT
          !.current_sql = new_sql,
          !.attempt = a,
          !.pc = IF LoopContinues(a, f.max_retries) THEN "validating" ELSE "done",
          !.ret = IF LoopContinues(a, f.max_retries) THEN @
                  ELSE Failure(new_sql,
                               IF f.last_error \notin {None, <<>>} THEN f.last_error
                               ELSE UnknownErrorMessage,
                               "loop_exit")]

FrameStep(f, o) ==
    CASE f.pc = "validating" -> ValidateStep(f, o)
      [] f.pc = "executing" -> ExecuteStep(f, o)
      [] f.pc = "regenerating" -> RegenerateStep(f, o)
      [] OTHER -> f

\* the outcomes the call at position pc can have
OutcomesAt(position) ==
    IF position \in {"validating", "executing"} THEN GatewayOutcomes
    ELSE IF position = "regenerating" THEN CompletionOutcomes
    ELSE {}

\* invocation i is called
PairStart(i) ==
    /\ received[i] = <<>>
    /\ \E n \in PairRetries :
        /\ frames' = [frames EXCEPT ![Local(i)] =
                         StartFrame(PairSql[i], PairQuestions[i], <<OrdersTable>>, n)]
        /\ received' = [received EXCEPT ![i] =
                           <<[sql |-> PairSql[i], question |-> PairQuestions[i],
                              schema_context |-> <<OrdersTable>>, max_retries |-> n]>>]
    /\ UNCHANGED <<stage, pc, args, vvars, lvars, ret, calls,
                   _session, created, closed, threads>>

\* invocation i makes the next call of its loop and takes the branch
PairStep(i) ==
    /\ received[i] # <<>>
    /\ \E o \in OutcomesAt(frames[Local(i)].pc) :
        /\ frames' = [frames EXCEPT ![Local(i)] = FrameStep(@, o)]
        /\ received' = [received EXCEPT ![i] = Append(@, o)]
    /\ UNCHANGED <<stage, pc, args, vvars, lvars, ret, calls,
                   _session, created, closed, threads>>

PairNext == \E i \in Invocations : PairStart(i) \/ PairStep(i)

PairSpec == Init /\ [][PairNext]_vars

\* the locals an invocation has when it runs alone with the arguments and
\* call outcomes of the history h
RECURSIVE RunAlone(_)
RunAlone(h) ==
    IF Len(h) = 1
    THEN StartFrame(h[1].sql, h[1].question, h[1].schema_context, h[1].max_retries)
    ELSE FrameStep(RunAlone(SubSeq(h, 1, Len(h) - 1)), h[Len(h)])

MaxSessionCalls == 4

\* what loading the parameters and Session.builder...create() can do
CreateOutcomes == {"created", "value_error", "error"}
\* what _session.close() can do
CloseOutcomes == {"closed", "raise"}

\* mutant: the cache is never consulted
Cached_Never(session) == FALSE

\* `if _session is not None`
Cached(session) == session # NoSession

SessionEvent(o, t, out, s) == [op |-> o, thread |-> t, outcome |-> out, session |-> s]

AllIdle == \A t \in Threads : threads[t].pc = "idle"
Running == {t \in Threads : threads[t].pc # "idle"}
MayCall == Len(calls) + Cardinality(Running) < MaxSessionCalls

\* thread t calls get_session and tests the cache: a cached session is
\* returned at once
GetSession(t) ==
    /\ threads[t].pc = "idle" /\ MayCall
    /\ IF Cached(_session)
       THEN /\ calls' = Append(calls, SessionEvent("get_session", t, "cached", _session))
            /\ UNCHANGED threads
       ELSE /\ threads' = [threads EXCEPT ![t].pc = "creating"]
            /\ UNCHANGED calls
    /\ UNCHANGED <<_session, created, closed>>
    /\ UNCHANGED <<stage, pc, args, vvars, lvars, ret, frames, received>>

\* the try block: the parameters are loaded and the session is created and
\* assigned to _session, or an exception leaves get_session
CreateSession(t) ==
    /\ threads[t].pc = "creating"
    /\ \E o \in CreateOutcomes :
        IF o = "created"
        THEN /\ created' = created + 1
             /\ _session' = created'
             /\ threads' = [threads EXCEPT ![t].pc = "returning"]
             /\ UNCHANGED calls
        ELSE /\ calls' = Append(calls, SessionEvent("get_session", t, o, NoSession))
             /\ threads' = [threads EXCEPT ![t].pc = "idle"]
             /\ UNCHANGED <<_session, created>>
    /\ UNCHANGED closed
    /\ UNCHANGED <<stage, pc, args, vvars, lvars, ret, frames, received>>

\* `return _session` after the creation
ReturnSession(t) ==
    /\ threads[t].pc = "returning"
    /\ calls' = Append(calls, SessionEvent("get_session", t, "created", _session))
    /\ threads' = [threads EXCEPT ![t].pc = "idle"]
    /\ UNCHANGED <<_session, created, closed>>
    /\ UNCHANGED <<stage, pc, args, vvars, lvars, ret, frames, received>>

\* thread t calls close_session and tests the cache: with no session it
\* returns at once
CloseSession(t) ==
    /\ threads[t].pc = "idle" /\ MayCall
    /\ IF _session # NoSession
       THEN /\ threads' = [threads EXCEPT ![t].pc = "closing"]
            /\ UNCHANGED calls
       ELSE /\ calls' = Append(calls, SessionEvent("close_session", t, "none", NoSession))
            /\ UNCHANGED threads
    /\ UNCHANGED <<_session, created, closed>>
    /\ UNCHANGED <<stage, pc, args, vvars, lvars, ret, frames, received>>

\* `_session.close()` in the try block; an exception is printed. With
\* _session already reset by another thread the attribute access raises.
CloseIt(t) ==
    /\ threads[t].pc = "closing"
    /\ \E o \in CloseOutcomes :
        /\ o = "closed" => _session # NoSession
        /\ closed' = IF o = "closed" THEN closed \cup {_session} ELSE closed
        /\ threads' = [threads EXCEPT ![t] = [pc |-> "resetting", outcome |-> o]]
    /\ UNCHANGED <<_session, created, calls>>
    /\ UNCHANGED <<stage, pc, args, vvars, lvars, ret, frames, received>>

\* `finally: _session = None`, and the return
ResetSession(t) ==
    /\ threads[t].pc = "resetting"
    /\ _session' = NoSession
    /\ calls' = Append(calls, SessionEvent("close_session", t, threads[t].outcome, _session))
    /\ threads' = [threads EXCEPT ![t] = IdleThread]
    /\ UNCHANGED <<created, closed>>
    /\ UNCHANGED <<stage, pc, args, vvars, lvars, ret, frames, received>>

\* a sequential series of calls: a call starts when no call is running
SessionNext ==
    \E t \in Threads :
        \/ AllIdle /\ GetSession(t)
        \/ AllIdle /\ CloseSession(t)
        \/ CreateSession(t)
        \/ ReturnSession(t)
        \/ CloseIt(t)
        \/ ResetSession(t)

SessionSpec == Init /\ [][SessionNext]_vars

\* threads call at any time
ConcurrentSessionNext ==
    \E t \in Threads :
        \/ GetSession(t)
        \/ CloseSession(t)
        \/ CreateSession(t)
        \/ ReturnSession(t)
        \/ CloseIt(t)
        \/ ResetSession(t)

ConcurrentSessionSpec == Init /\ [][ConcurrentSessionNext]_vars

\* ------------------------------------------------------------------- C25
\* a call of the connection module returns or raises in this step
Returns(o) == Len(calls') = Len(calls) + 1 /\ calls'[Len(calls')].op = o
SessionReturn == calls'[Len(calls')]
SessionsSeen == {calls[k].session : k \in 1..Len(calls)}

\* C25: over a sequential series of get_session and close_session calls, a
\* session is created only when none is cached; a get_session that finds a
\* cached session returns it and leaves the cache as it is; close_session
\* never raises, with or without a session and whether or not closing raised,
\* and leaves the cache empty; the get_session that follows a close_session
\* never returns an earlier session, it returns a newly created one or raises;
\* the cache holds nothing or one of the sessions created.
C25_SessionSingleton ==
    /\ [](_session = NoSession \/ _session \in 1..created)
    /\ [][/\ created' # created =>
               /\ _session = NoSession
               /\ created' = created + 1 /\ _session' = created'
          /\ (Returns("get_session") /\ _session # NoSession) =>
               /\ SessionReturn.outcome \in {"cached", "created"}
               /\ SessionReturn.session = _session
               /\ UNCHANGED <<_session, created, closed>>
          /\ (Returns("get_session") /\ _session = NoSession) =>
               /\ SessionReturn.outcome \in {"value_error", "error"}
               /\ _session' = NoSession
          /\ Returns("close_session") =>
               /\ SessionReturn.outcome \in {"none", "closed", "raise"}
               /\ _session' = NoSession
               /\ SessionReturn.outcome = "none" <=> _session = NoSession
          /\ (Returns("get_session") /\ Len(calls) > 0
                /\ calls[Len(calls)].op = "close_session"
                /\ SessionReturn.outcome \notin {"value_error", "error"}) =>
               /\ SessionReturn.outcome = "created"
               /\ SessionReturn.session \notin SessionsSeen
               /\ SessionReturn.session = _session'
         ]_vars

\* a cached session was returned, closing it raised, and the next
\* get_session returned a second session
C25_Witness ==
    /\ Len(calls) = 4 /\ AllIdle
    /\ calls[1].outcome = "created" /\ calls[2].outcome = "cached"
    /\ calls[2].session = calls[1].session
    /\ calls[3].op = "close_session" /\ calls[3].outcome = "raise"
    /\ calls[4].outcome = "created" /\ calls[4].session = 2 /\ _session = 2

\* close_session returned with no session cached
C25_WitnessNoSession ==
    /\ Len(calls) = 1 /\ calls[1].op = "close_session" /\ calls[1].outcome = "none"
    /\ _session = NoSession

\* ------------------------------------------------------------------- C30
\* only get_session has been called so far
OnlyGetSession ==
    /\ \A k \in 1..Len(calls) : calls[k].op = "get_session"
    /\ \A t \in Threads : threads[t].pc \in {"idle", "creating", "returning"}
SessionsReturned ==
    {calls[k].session : k \in {j \in 1..Len(calls) :
                                  calls[j].outcome \in {"cached", "created"}}}

\* C30: when threads call get_session concurrently while no session is
\* cached, at most one session is ever created, every caller that gets a
\* session gets that one, and a created session is the cached one.
C30_ConcurrentSingleton ==
    OnlyGetSession =>
        /\ created <= 1
        /\ Cardinality(SessionsReturned) <= 1
        /\ \A s \in 1..created : _session = s

\* ------------------------------------------------------------------- C26
KnownPrefixes == { <<"Error:", " ">>, <<"SnowflakeError:", " ">>, <<"Exception:", " ">> }
StartsWithKnownPrefix(s) == \E p \in KnownPrefixes : StartsWith(s, p)
Placeholder == <<"Unknown error (empty error message)">>

\* the line mentions "error" in any letter case
MentionsError(line) ==
    \E i \in 1..Len(line) :
        line[i] \in {"Error:", "SnowflakeError:", "error", "SQL compilation error:",
                     "Execution error:"}

\* the first line of text d that satisfies P(_)
FirstLine(d, P(_)) ==
    LET lines == SplitLines(d)
    IN lines[MinOf({i \in 1..Len(lines) : P(lines[i])})]
SomeLine(d, P(_)) == \E i \in 1..Len(SplitLines(d)) : P(SplitLines(d)[i])
NonBlank(line) == ~IsBlank(line)

\* s without its leading known prefixes
RECURSIVE WithoutKnownPrefixes(_)
WithoutKnownPrefixes(s) ==
    IF StartsWithKnownPrefix(s)
    THEN WithoutKnownPrefixes(SubSeq(s, 3, Len(s)))
    ELSE s

\* s without prefix p when it starts with it
Drop(s, p) == IF StartsWith(s, p) THEN SubSeq(s, Len(p) + 1, Len(s)) ELSE s

C26_WitnessBlank ==
    /\ FunctionReturned("_extract_error_message")
    /\ args.text = <<"\t", " ">> \o <<"\n">> \o <<" ">>
    /\ ret.text = <<>>

\* a diagnostic without "error" was answered by its first non-blank line
C26_WitnessNoError ==
    /\ FunctionReturned("_extract_error_message")
    /\ args.text = <<" ">> \o <<"\n">> \o <<" ", "line 1 at position 14", " ">>
    /\ ret.text = <<"line 1 at position 14">>

\* ------------------------------------------------------------------- C27
\* C27: in an invocation that passes the empty-SQL check the attempt counter
\* is 0 at the first loop test, never decreases, changes only by +1 and only
\* in the step that follows a regeneration call, and never exceeds
\* max_retries; the loop condition never fails, so the return after the loop
\* is never taken.
C27_AttemptCounter ==
    /\ []((InValidator /\ ~IsBlank(args.sql)) =>
            /\ attempt \in 0..max_retries
            /\ LoopContinues(attempt, max_retries)
            /\ ret.kind # "none" => ret.via # "loop_exit")
    /\ [][/\ (~InValidator /\ InValidator' /\ ~IsBlank(args'.sql)) => attempt' = 0
          /\ InValidator =>
               /\ attempt' \in {attempt, attempt + 1}
               /\ attempt' # attempt => pc = "regenerating"
         ]_vars

\* the counter reached a bound of two or more and the invocation returned
C27_Witness ==
    /\ InValidator /\ Returned /\ ~IsBlank(args.sql)
    /\ max_retries >= 2 /\ attempt = max_retries
    /\ Count("generate") = max_retries

\* ------------------------------------------------------------------- C28
\* the text has a character that is not whitespace
HasVisibleCharacter(s) == \E i \in 1..Len(s) : s[i] \notin {" ", "\t", "\n"}
WarehouseCalls == CallsOf("explain") \cup CallsOf("run")

Contains(s, sub) ==
    \E k \in 0..(Len(s) - Len(sub)) : SubSeq(s, k + 1, k + Len(sub)) = sub
Tokens(s) == {s[i] : i \in 1..Len(s)}
FeedbackHeadings ==
    {"\n", "PREVIOUS ATTEMPT FAILED WITH ERROR:", "FAILED SQL QUERY:",
     "Please fix the SQL query to avoid this error."}
Occurrences(s, token) == Cardinality({i \in 1..Len(s) : s[i] = token})

\* the failed warehouse call of the iteration before the generator call i
FailedBefore(i) == MaxOf({j \in FailedCalls : j < i})

\* C29: the question of every regeneration starts with the original question
\* and carries one feedback section, with the cleaned error and the SQL of
\* the failed call of the iteration just before it; nothing else is in it,
\* so an error or an SQL text of an earlier iteration is in it only as far
\* as the preceding iteration repeated it.
C29_NoAccumulation ==
    InValidator =>
        \A i \in CallsOf("generate") :
            /\ \E j \in FailedCalls : j < i
            /\ LET failed   == calls[FailedBefore(i)]
                   question == calls[i].question
               IN /\ FailedBefore(i) = i - 1 \/ calls[i - 1].op = "complete"
                  /\ StartsWith(question, args.question)
                  /\ Occurrences(question, "PREVIOUS ATTEMPT FAILED WITH ERROR:") = 1
                  /\ Occurrences(question, "FAILED SQL QUERY:") = 1
                  /\ Contains(question, CleanedError[failed.raw])
                  /\ Contains(question, failed.sql)
                  /\ Tokens(question) \subseteq
                        Tokens(args.question) \cup FeedbackHeadings
                        \cup Tokens(CleanedError[failed.raw]) \cup Tokens(failed.sql)

\* the third regeneration follows three iterations that failed with two
\* different errors on two different SQL texts, and its question has neither
\* the error nor the SQL of the first iteration
C29_Witness ==
    /\ InValidator /\ Count("generate") = 3 /\ Len(calls) > 0
    /\ LET i == MaxOf(CallsOf("generate"))
           first == calls[MinOf(FailedCalls)]
           failed == calls[FailedBefore(i)]
       IN /\ first.raw # failed.raw /\ first.sql # failed.sql
          /\ ~Contains(calls[i].question, CleanedError[first.raw])
          /\ ~Contains(calls[i].question, first.sql)
          /\ failed.op = "run"
====
